---- MODULE Spec2Model ----
(***************************************************************************)
(* The node store of the Neos UI (packages/neos-ui-redux-store, CR/Nodes): *)
(* the reducer of cr.nodes and the child index builder populateChildren.   *)
(*                                                                         *)
(* Representation                                                          *)
(*  - a context path is the sequence of the segments of its path; the      *)
(*    context after "@" is the same for all nodes and left out.  <<>> is   *)
(*    the empty string ''.                                                 *)
(*  - an Immutable.Map / plain object is a sequence of entries             *)
(*    [key, node] in iteration order (Object.keys order, which for the     *)
(*    maps of up to 8 entries considered here is insertion order).         *)
(*  - a node record is a function from the names of the fields it has.     *)
(*  - a number is <<k, d>> and stands for k * 2^53 + d (TLC's integers are *)
(*    32 bit wide, Number.MAX_SAFE_INTEGER is 2^53 - 1); NaN is a value of *)
(*    its own.  An undefined field is a field the record does not have.    *)
(*  - a uri or uri fragment is the sequence of its characters, and so is a  *)
(*    context path where NodeTree treats it as a string.                   *)
(***************************************************************************)
EXTENDS Integers, Sequences, FiniteSets, TLC

VARIABLES
    booted,            \* FALSE until system.INIT was reduced
    byContextPath,     \* cr.nodes.byContextPath
    siteNode,          \* cr.nodes.siteNode
    focused,           \* cr.nodes.focused
    toBeRemoved,       \* cr.nodes.toBeRemoved
    clipboard,         \* cr.nodes.clipboard
    clipboardMode,     \* cr.nodes.clipboardMode
    contentCanvasContextPath, \* ui.contentCanvas.contextPath
    lastOp,            \* the action reduced last, with its payload
    steps,             \* number of actions reduced since system.INIT
    failed,            \* TRUE once a reducer has thrown
    focusedNodesContextPaths, \* the prop of NodeTree
    dndDisabled,       \* the dndDisabled that NodeTree.render passes on
    sagaAlive,         \* the saga moveDroppedNode is running
    persisted          \* the persistChanges actions put, in order

vars == <<booted, byContextPath, siteNode, focused, toBeRemoved, clipboard,
          clipboardMode, contentCanvasContextPath, lastOp, steps, failed,
          focusedNodesContextPaths, dndDisabled, sagaAlive, persisted>>

-----------------------------------------------------------------------------
(* Bounds *)

MaxSteps == 2

-----------------------------------------------------------------------------
(* Context paths *)

NoPath == <<>>
P == <<"p">>
A == <<"p", "a">>
B == <<"p", "b">>
C == <<"p", "c">>
D == <<"p", "d">>

PayloadPaths == {P, A, B, C, D}

AllButLast(s) == SubSeq(s, 1, Len(s) - 1)

\* helpers.parentNodeContextPath: the context path with its last path
\* segment cut off; a function of the context path alone
parentNodeContextPath(contextPath) ==
    IF Len(contextPath) = 0 THEN NoPath ELSE AllButLast(contextPath)

-----------------------------------------------------------------------------
(* Numbers *)

NaN == <<"NaN">>
Null == <<"null">>
Num(n) == <<0, n>>
MAX_SAFE_INTEGER == <<1, -1>>

IsNumber(x) == Len(x) = 2

\* ToNumber of a value used as an operand
ToNumber(x) == IF x = Null THEN Num(0) ELSE x

\* x + 1 in double precision: 2^53 + 1 rounds to 2^53
JsPlusOne(x) ==
    LET n == ToNumber(x) IN
    IF ~IsNumber(n) THEN NaN
    ELSE IF n[1] >= 1 /\ n[2] >= 0 THEN n
    ELSE <<n[1], n[2] + 1>>

\* x - 1 in double precision: exact for every number at or below 2^53
JsMinusOne(x) ==
    LET n == ToNumber(x) IN
    IF ~IsNumber(n) THEN NaN ELSE <<n[1], n[2] - 1>>

\* a < b of JavaScript: false when an operand is NaN or undefined
JsLess(a, b) ==
    LET x == ToNumber(a)
        y == ToNumber(b)
    IN  /\ IsNumber(x)
        /\ IsNumber(y)
        /\ \/ x[1] < y[1]
           \/ x[1] = y[1] /\ x[2] < y[2]

-----------------------------------------------------------------------------
(* Strings *)

\* sub occurs in s at position i
OccursAt(s, sub, i) ==
    /\ i + Len(sub) - 1 <= Len(s)
    /\ \A j \in 1..Len(sub) : s[i + j - 1] = sub[j]

\* String.prototype.includes
includes(s, sub) == \E i \in 1..(Len(s) + 1) : OccursAt(s, sub, i)

\* String.prototype.indexOf, for a sub that s includes
indexOf(s, sub) ==
    CHOOSE i \in 1..(Len(s) + 1) :
        /\ OccursAt(s, sub, i)
        /\ \A j \in 1..(i - 1) : ~OccursAt(s, sub, j)

\* String.prototype.replace with a string pattern: the first occurrence
replace(s, pattern, replacement) ==
    IF ~includes(s, pattern) THEN s
    ELSE LET i == indexOf(s, pattern)
         IN  SubSeq(s, 1, i - 1) \o replacement
                 \o SubSeq(s, i + Len(pattern), Len(s))

-----------------------------------------------------------------------------
(* Records and maps *)

HasField(node, f) == f \in DOMAIN node

SetField(node, f, v) ==
    [g \in (DOMAIN node) \cup {f} |-> IF g = f THEN v ELSE node[g]]

EmptyObject == [g \in {} |-> <<>>]

EmptyMap == <<>>

Keys(m) == {m[i].key : i \in DOMAIN m}

Has(m, k) == \E i \in DOMAIN m : m[i].key = k

IndexOf(m, k) == CHOOSE i \in DOMAIN m : m[i].key = k

Get(m, k) == m[IndexOf(m, k)].node

\* a Map.set that appends also when the key exists
MapSetAppending(m, k, node) == Append(m, [key |-> k, node |-> node])

\* Map.set: an existing key keeps its place, a new key is appended
MapSet(m, k, node) ==
    IF Has(m, k)
    THEN [m EXCEPT ![IndexOf(m, k)] = [key |-> k, node |-> node]]
    ELSE Append(m, [key |-> k, node |-> node])

\* a delete that cascades to the records whose parent is the deleted key
MapDeleteCascading(m, k) ==
    SelectSeq(m, LAMBDA e :
        /\ e.key # k
        /\ ~("parentContextPath" \in DOMAIN e.node
             /\ e.node.parentContextPath = k))

\* Map.delete of a small map: the last entry takes the place of the deleted
MapDelete(m, k) ==
    IF ~Has(m, k) THEN m
    ELSE LET idx == IndexOf(m, k)
             len == Len(m)
         IN  [i \in 1..(len - 1) |-> IF i = idx THEN m[len] ELSE m[i]]

\* the value undefined in the place of a map
Undefined == [i \in {0} |-> 0]

IsUndefined(m) == DOMAIN m = {0}

\* $get of a field of the record at a key: present or undefined
HasIn(m, k, f) == Has(m, k) /\ HasField(Get(m, k), f)

\* $set(['cr', 'nodes', 'byContextPath', k, f], v): setIn creates the record
SetIn(m, k, f, v) ==
    MapSet(m, k, SetField(IF Has(m, k) THEN Get(m, k) ELSE EmptyObject, f, v))

-----------------------------------------------------------------------------
(* Child index builder *)

\* a comparator with the two results swapped
compareIndexSwapped(a, b) ==
    LET aDef == HasField(a, "index")
        bDef == HasField(b, "index")
    IN  IF aDef /\ bDef /\ JsLess(a.index, b.index) THEN 1
        ELSE IF aDef /\ bDef /\ JsLess(b.index, a.index) THEN -1
        ELSE 0

\* the comparator of populateChildren: -1, 1 or 0
compareIndex(a, b) ==
    LET aDef == HasField(a, "index")
        bDef == HasField(b, "index")
    IN  IF aDef /\ bDef /\ JsLess(a.index, b.index) THEN -1
        ELSE IF aDef /\ bDef /\ JsLess(b.index, a.index) THEN 1
        ELSE 0

\* place of element e in the sorted prefix s: e goes behind the last element,
\* seen from the end, that does not compare greater than e
RECURSIVE InsertInto(_, _, _)
InsertInto(s, e, j) ==
    IF j >= 1 /\ compareIndex(s[j], e) > 0
    THEN InsertInto(s, e, j - 1)
    ELSE SubSeq(s, 1, j) \o <<e>> \o SubSeq(s, j + 1, Len(s))

\* a builder that leaves the pushed children unsorted
SortChildrenSkipped(list) == list

\* Array.prototype.sort of a short array: insertion sort, stable; with a NaN
\* or undefined index the comparator answers 0 and the elements stay put
RECURSIVE SortChildren(_)
SortChildren(list) ==
    IF Len(list) <= 1 THEN list
    ELSE LET front == SortChildren(SubSeq(list, 1, Len(list) - 1))
         IN  InsertInto(front, list[Len(list)], Len(front))

\* the reference pushed to the parent: an undefined nodeType or index is a
\* field the reference does not have
ChildReference(entry) ==
    LET fs == {"contextPath"} \cup ({"nodeType", "index"} \cap DOMAIN entry.node)
    IN  [f \in fs |-> IF f = "contextPath" THEN entry.key ELSE entry.node[f]]

IsChildOf(nodes, entry, key) ==
    /\ HasField(entry.node, "parentContextPath")
    /\ entry.node.parentContextPath = key

PushedChildren(nodes, key) ==
    LET sel == SelectSeq(nodes, LAMBDA e : IsChildOf(nodes, e, key))
    IN  [i \in 1..Len(sel) |-> ChildReference(sel[i])]

\* parentNode = nodes[node.parentContextPath] is a record
Resolves(nodes, entry) ==
    /\ HasField(entry.node, "parentContextPath")
    /\ Has(nodes, entry.node.parentContextPath)

\* a guard that tests the parent path of the node, not the parent record
PushesToTruthyParent(nodes, entry) ==
    /\ HasField(entry.node, "parentContextPath")
    /\ entry.node.parentContextPath # NoPath

\* the guard of parentNode.children.push: parentNode is a record (and its
\* children, reset by the first pass, an array)
PushesTo(nodes, entry) == Resolves(nodes, entry)

\* populateChildren throws a TypeError: Object.keys(undefined), or a push
\* onto the children of a parentNode that is undefined
populateChildrenThrows(nodes) ==
    \/ IsUndefined(nodes)
    \/ \E i \in DOMAIN nodes :
          PushesTo(nodes, nodes[i]) /\ ~Resolves(nodes, nodes[i])

\* a builder that keeps the children list a record already has
populateChildrenIncremental(nodes) ==
    [i \in DOMAIN nodes |->
        [key |-> nodes[i].key,
         node |-> IF HasField(nodes[i].node, "children")
                  THEN nodes[i].node
                  ELSE SetField(nodes[i].node, "children",
                           SortChildren(PushedChildren(nodes, nodes[i].key)))]]

populateChildren(nodes) ==
    [i \in DOMAIN nodes |->
        [key |-> nodes[i].key,
         node |-> SetField(nodes[i].node, "children",
                           SortChildren(PushedChildren(nodes, nodes[i].key)))]]

-----------------------------------------------------------------------------
(* Merging: plow's $merge on Immutable data is mergeDeepIn *)

\* mergeDeep of two child references or property objects
MergeObject(old, new) ==
    [f \in (DOMAIN old) \cup (DOMAIN new) |->
        IF f \in DOMAIN new THEN new[f] ELSE old[f]]

\* List.mergeDeep: merged index by index, a longer old list keeps its tail
MergeList(old, new) ==
    [i \in 1..(IF Len(old) > Len(new) THEN Len(old) ELSE Len(new)) |->
        IF i > Len(new) THEN old[i]
        ELSE IF i > Len(old) THEN new[i]
        ELSE MergeObject(old[i], new[i])]

\* mergeDeep of two node records
MergeNode(old, new) ==
    [f \in (DOMAIN old) \cup (DOMAIN new) |->
        IF f \notin DOMAIN new THEN old[f]
        ELSE IF f \notin DOMAIN old THEN new[f]
        ELSE IF f = "properties" THEN MergeObject(old[f], new[f])
        ELSE IF f = "children" THEN MergeList(old[f], new[f])
        ELSE new[f]]

\* Map.mergeDeep: entries of the incoming map in their order
RECURSIVE MergeDeep(_, _)
MergeDeep(m, incoming) ==
    IF Len(incoming) = 0 THEN m
    ELSE LET e == Head(incoming)
             merged == IF Has(m, e.key)
                       THEN MapSet(m, e.key, MergeNode(Get(m, e.key), e.node))
                       ELSE MapSet(m, e.key, e.node)
         IN  MergeDeep(merged, Tail(incoming))

-----------------------------------------------------------------------------
(* Payloads *)

Positions == {"into", "before", "after"}

\* the uris of the nodes: /shop@live, /shop/shoes@live, /shop/shoes/red@live,
\* /shop/shoeshine@live, /shop/socks@live, /shop/hats@live
UriShop == <<"/", "s", "h", "o", "p", "@", "l", "i", "v", "e">>
UriShoes == <<"/", "s", "h", "o", "p", "/", "s", "h", "o", "e", "s", "@", "l", "i", "v", "e">>
UriShoesRed == <<"/", "s", "h", "o", "p", "/", "s", "h", "o", "e", "s", "/", "r", "e", "d", "@", "l", "i", "v", "e">>
UriShoeshine == <<"/", "s", "h", "o", "p", "/", "s", "h", "o", "e", "s", "h", "i", "n", "e", "@", "l", "i", "v", "e">>
UriSocks == <<"/", "s", "h", "o", "p", "/", "s", "o", "c", "k", "s", "@", "l", "i", "v", "e">>
UriHats == <<"/", "s", "h", "o", "p", "/", "h", "a", "t", "s", "@", "l", "i", "v", "e">>

\* a node record as the server sends it
ServerNode(contextPath, parent, type, index, uri) ==
    [contextPath |-> contextPath, parentContextPath |-> parent,
     nodeType |-> type, index |-> Num(index), uri |-> uri,
     properties |-> [_hidden |-> FALSE]]

Entry(k, node) == [key |-> k, node |-> node]

\* the node maps of the bootstrap state
FlatSite ==
    << Entry(P, ServerNode(P, NoPath, "Site", 0, UriShop)),
       Entry(A, ServerNode(A, P, "Page", 1, UriShoes)),
       Entry(B, ServerNode(B, P, "Page", 2, UriShoeshine)),
       Entry(C, ServerNode(C, P, "Page", 3, UriSocks)) >>

InitialNodeMaps == {FlatSite, Undefined}

\* the node maps passed to ADD
AddMaps ==
    { << Entry(D, ServerNode(D, P, "Page", 4, UriHats)) >>,
      << Entry(A, [parentContextPath |-> P, nodeType |-> "Text",
                   index |-> Num(3)]) >>,
      << Entry(P, ServerNode(P, NoPath, "Site", 0, UriShop)) >> }

\* the payloads of SWITCH_DIMENSION
SwitchPayloads ==
    { [siteNodeContextPath |-> P, documentNodeContextPath |-> D,
       nodes |-> << Entry(P, ServerNode(P, NoPath, "Site", 0, UriShop)),
                    Entry(D, ServerNode(D, P, "Page", 1, UriHats)) >>],
      [siteNodeContextPath |-> D, documentNodeContextPath |-> D,
       nodes |-> << Entry(D, ServerNode(D, P, "Page", 0, UriHats)) >>] }

FocusPaths == {P, D}
FusionPaths == {"root<Page>"}
HidePaths == {P, A, D}

\* the payloads of UPDATE_URI: shop/shoes -> shop/sneakers, shop -> store
UriPayloads ==
    { [oldUriFragment |-> <<"s", "h", "o", "p", "/", "s", "h", "o", "e", "s">>, newUriFragment |-> <<"s", "h", "o", "p", "/", "s", "n", "e", "a", "k", "e", "r", "s">>],
      [oldUriFragment |-> <<"s", "h", "o", "p">>, newUriFragment |-> <<"s", "t", "o", "r", "e">>] }

\* JSON.parse(JSON.stringify(nodeMap)): an undefined field is dropped (it is
\* absent already), a NaN becomes null
JsonValue(f, v) == IF f = "index" /\ v = NaN THEN Null ELSE v

JsonClone(nodeMap) ==
    [i \in DOMAIN nodeMap |->
        [key |-> nodeMap[i].key,
         node |-> [f \in DOMAIN nodeMap[i].node |->
                      JsonValue(f, nodeMap[i].node[f])]]]

-----------------------------------------------------------------------------
(* The reducer, as functions of cr.nodes.byContextPath *)

ReduceAdd(m, nodeMap) == populateChildren(MergeDeep(m, JsonClone(nodeMap)))

\* a new index that takes the index of the target for `after`
MoveIndexOnTarget(m, targetNodeContextPath, position) ==
    IF position = "into" THEN MAX_SAFE_INTEGER
    ELSE IF ~HasIn(m, targetNodeContextPath, "index") THEN NaN
    ELSE IF position = "before"
         THEN JsMinusOne(Get(m, targetNodeContextPath).index)
         ELSE Get(m, targetNodeContextPath).index

MoveIndex(m, targetNodeContextPath, position) ==
    IF position = "into" THEN MAX_SAFE_INTEGER
    ELSE IF ~HasIn(m, targetNodeContextPath, "index") THEN NaN
    ELSE IF position = "before"
         THEN JsMinusOne(Get(m, targetNodeContextPath).index)
         ELSE JsPlusOne(Get(m, targetNodeContextPath).index)

MoveBase(targetNodeContextPath, position) ==
    IF position = "into" THEN targetNodeContextPath
    ELSE parentNodeContextPath(targetNodeContextPath)

ReduceMove(m, sourceNodeContextPath, targetNodeContextPath, position) ==
    LET withIndex == SetIn(m, sourceNodeContextPath, "index",
                           MoveIndex(m, targetNodeContextPath, position))
        withParent == SetIn(withIndex, sourceNodeContextPath,
                            "parentContextPath",
                            MoveBase(targetNodeContextPath, position))
    IN  populateChildren(withParent)

ReduceAddThrows(m, nodeMap) ==
    populateChildrenThrows(MergeDeep(m, JsonClone(nodeMap)))

ReduceMoveThrows(m, sourceNodeContextPath, targetNodeContextPath, position) ==
    LET withIndex == SetIn(m, sourceNodeContextPath, "index",
                           MoveIndex(m, targetNodeContextPath, position))
        withParent == SetIn(withIndex, sourceNodeContextPath,
                            "parentContextPath",
                            MoveBase(targetNodeContextPath, position))
    IN  populateChildrenThrows(withParent)

ReduceSwitchDimensionThrows(m, nodes) == populateChildrenThrows(nodes)

ReduceRemove(m, contextPath) == MapDelete(m, contextPath)

ReduceSwitchDimension(m, nodes) == MergeDeep(m, populateChildren(nodes))

\* a HIDE/SHOW that reaches the children of the node as well
ReduceHiddenCascading(m, contextPath, value) ==
    [i \in DOMAIN m |->
        IF \/ m[i].key = contextPath
           \/ /\ HasField(m[i].node, "parentContextPath")
              /\ m[i].node.parentContextPath = contextPath
        THEN [key |-> m[i].key,
              node |-> SetField(m[i].node, "properties",
                           SetField(IF HasField(m[i].node, "properties")
                                    THEN m[i].node.properties
                                    ELSE EmptyObject, "_hidden", value))]
        ELSE m[i]]

\* $set([..., contextPath, 'properties', '_hidden'], value)
ReduceHidden(m, contextPath, value) ==
    LET properties == IF HasIn(m, contextPath, "properties")
                      THEN Get(m, contextPath).properties
                      ELSE EmptyObject
    IN  SetIn(m, contextPath, "properties",
              SetField(properties, "_hidden", value))

\* a rewrite for the node of the changed segment only, not its descendants
RewrittenUriSelfOnly(nodeUri, oldUriFragment, newUriFragment) ==
    replace(nodeUri, oldUriFragment \o <<"@">>, newUriFragment \o <<"@">>)

\* the uri that UPDATE_URI sets for a node whose uri matches
RewrittenUri(nodeUri, oldUriFragment, newUriFragment) ==
    replace(replace(nodeUri, oldUriFragment \o <<"@">>,
                    newUriFragment \o <<"@">>),
            oldUriFragment \o <<"/">>, newUriFragment \o <<"/">>)

\* the condition under which UPDATE_URI rewrites the uri of a node
UriMatches(node, oldUriFragment) ==
    /\ HasField(node, "uri")
    /\ Len(node.uri) > 0
    /\ \/ includes(node.uri, oldUriFragment \o <<"/">>)
       \/ includes(node.uri, oldUriFragment \o <<"@">>)

\* the key that $get('contextPath', node) yields for the $set
UndefinedKey == <<"undefined">>

UriKey(node) ==
    IF HasField(node, "contextPath") THEN node.contextPath ELSE UndefinedKey

\* $all(...setters, state): the setters of the matching nodes, each computed
\* from the map as it was, applied one after the other
RECURSIVE ApplyUriSetters(_, _, _, _, _)
ApplyUriSetters(m, allNodes, i, oldUriFragment, newUriFragment) ==
    IF i > Len(allNodes) THEN m
    ELSE LET node == allNodes[i].node
             next == IF UriMatches(node, oldUriFragment)
                     THEN SetIn(m, UriKey(node), "uri",
                                RewrittenUri(node.uri, oldUriFragment,
                                             newUriFragment))
                     ELSE m
         IN  ApplyUriSetters(next, allNodes, i + 1, oldUriFragment,
                             newUriFragment)

ReduceUpdateUri(m, oldUriFragment, newUriFragment) ==
    ApplyUriSetters(m, m, 1, oldUriFragment, newUriFragment)

EmptyFocus == [contextPath |-> NoPath, fusionPath |-> ""]

-----------------------------------------------------------------------------
(* State machine *)

Init ==
    /\ booted = FALSE
    /\ byContextPath \in InitialNodeMaps
    /\ siteNode = P
    /\ focused = EmptyFocus
    /\ toBeRemoved = NoPath
    /\ clipboard = NoPath
    /\ clipboardMode = ""
    /\ contentCanvasContextPath = NoPath
    /\ lastOp = [type |-> "none"]
    /\ steps = 0
    /\ failed = FALSE
    /\ focusedNodesContextPaths = <<>>
    /\ dndDisabled = FALSE
    /\ sagaAlive = TRUE
    /\ persisted = <<>>

CanStep == booted /\ ~failed /\ steps < MaxSteps

\* the store has reduced op; the props of NodeTree are as they were
Dispatched(op) ==
    /\ lastOp' = op
    /\ steps' = steps + 1
    /\ UNCHANGED <<focusedNodesContextPaths, dndDisabled>>

\* op is an action that no saga modelled here takes
Stepped(op) == Dispatched(op) /\ UNCHANGED <<sagaAlive, persisted>>

\* the reducer throws: the store keeps its state
Thrown ==
    /\ failed' = TRUE
    /\ UNCHANGED <<booted, byContextPath, siteNode, focused, toBeRemoved,
                   clipboard, clipboardMode, contentCanvasContextPath>>

INIT ==
    /\ ~booted
    /\ ~failed
    /\ lastOp' = [type |-> "INIT"]
    /\ steps' = steps
    /\ UNCHANGED <<focusedNodesContextPaths, dndDisabled, sagaAlive,
                   persisted>>
    /\ IF populateChildrenThrows(byContextPath)
       THEN Thrown
       ELSE /\ booted' = TRUE
            /\ byContextPath' = populateChildren(byContextPath)
            /\ siteNode' = siteNode
            /\ focused' = EmptyFocus
            /\ toBeRemoved' = NoPath
            /\ clipboard' = NoPath
            /\ clipboardMode' = ""
            /\ UNCHANGED <<contentCanvasContextPath, failed>>

ADD(nodeMap) ==
    /\ CanStep
    /\ Stepped([type |-> "ADD", nodeMap |-> nodeMap])
    /\ IF ReduceAddThrows(byContextPath, nodeMap)
       THEN Thrown
       ELSE /\ byContextPath' = ReduceAdd(byContextPath, nodeMap)
            /\ UNCHANGED <<booted, siteNode, focused, toBeRemoved, clipboard,
                           clipboardMode, contentCanvasContextPath, failed>>

\* the names bound in the module of the saga: its imports
SagaBindings ==
    {"takeEvery", "put", "actions", "actionTypes",
     "calculateChangeTypeFromMode", "calculateDomAddressesFromMode"}

\* the names handleNodeMove refers to before its put, in order of evaluation
SagaReferences == <<"selectors", "select">>

\* handleNodeMove throws a ReferenceError: it refers to a name that the
\* module does not bind
handleNodeMoveThrows ==
    \E i \in DOMAIN SagaReferences : SagaReferences[i] \notin SagaBindings

\* calculateChangeTypeFromMode(position, 'Move')
calculateChangeTypeFromMode(position, prefix) == <<prefix, position>>

\* calculateDomAddressesFromMode(position, referenceNode)
calculateDomAddressesFromMode(position, referenceNode) ==
    [position |-> position, referenceNode |-> referenceNode]

\* yield select(makeGetNodeByContextPathSelector(reference)) on the state
\* that the reducer has left
SelectNode(m, reference) == IF Has(m, reference) THEN Get(m, reference) ELSE Null

\* the action of persistChanges that handleNodeMove puts
MoveChanges(m, subject, reference, position) ==
    << [type |-> calculateChangeTypeFromMode(position, "Move"),
        subject |-> subject,
        payload |-> calculateDomAddressesFromMode(position,
                        SelectNode(m, reference))] >>

\* takeEvery(MOVE, handleNodeMove): the saga, while it runs, forks the
\* handler for the action; an error of the handler ends the saga
moveDroppedNode(m, subject, reference, position) ==
    IF ~sagaAlive THEN UNCHANGED <<sagaAlive, persisted>>
    ELSE IF handleNodeMoveThrows
         THEN sagaAlive' = FALSE /\ persisted' = persisted
         ELSE /\ sagaAlive' = sagaAlive
              /\ persisted' = Append(persisted,
                      MoveChanges(m, subject, reference, position))

MOVE(nodeToBeMoved, targetNode, position) ==
    /\ CanStep
    /\ Dispatched([type |-> "MOVE", nodeToBeMoved |-> nodeToBeMoved,
                   targetNode |-> targetNode, position |-> position])
    /\ IF ReduceMoveThrows(byContextPath, nodeToBeMoved, targetNode, position)
       THEN Thrown /\ UNCHANGED <<sagaAlive, persisted>>
       ELSE /\ byContextPath' = ReduceMove(byContextPath, nodeToBeMoved,
                                           targetNode, position)
            /\ UNCHANGED <<booted, siteNode, focused, toBeRemoved, clipboard,
                           clipboardMode, contentCanvasContextPath, failed>>
            /\ moveDroppedNode(byContextPath', nodeToBeMoved, targetNode,
                               position)

FOCUS(contextPath, fusionPath) ==
    /\ CanStep
    /\ focused' = [contextPath |-> contextPath, fusionPath |-> fusionPath]
    /\ Stepped([type |-> "FOCUS", contextPath |-> contextPath,
                fusionPath |-> fusionPath])
    /\ UNCHANGED <<booted, byContextPath, siteNode, toBeRemoved, clipboard,
                   clipboardMode, contentCanvasContextPath, failed>>

\* an UNFOCUS that clears the context path only
UnfocusKeepingFusionPath ==
    /\ CanStep
    /\ focused' = [focused EXCEPT !.contextPath = NoPath]
    /\ Stepped([type |-> "UNFOCUS"])
    /\ UNCHANGED <<booted, byContextPath, siteNode, toBeRemoved, clipboard,
                   clipboardMode, contentCanvasContextPath, failed>>

UNFOCUS ==
    /\ CanStep
    /\ focused' = EmptyFocus
    /\ Stepped([type |-> "UNFOCUS"])
    /\ UNCHANGED <<booted, byContextPath, siteNode, toBeRemoved, clipboard,
                   clipboardMode, contentCanvasContextPath, failed>>

COMMENCE_REMOVAL(contextPath) ==
    /\ CanStep
    /\ toBeRemoved' = contextPath
    /\ Stepped([type |-> "COMMENCE_REMOVAL", contextPath |-> contextPath])
    /\ UNCHANGED <<booted, byContextPath, siteNode, focused, clipboard,
                   clipboardMode, contentCanvasContextPath, failed>>

REMOVAL_ABORTED ==
    /\ CanStep
    /\ toBeRemoved' = NoPath
    /\ Stepped([type |-> "REMOVAL_ABORTED"])
    /\ UNCHANGED <<booted, byContextPath, siteNode, focused, clipboard,
                   clipboardMode, contentCanvasContextPath, failed>>

\* a confirmation that deletes the node marked for removal
RemovalConfirmedDeleting ==
    /\ CanStep
    /\ toBeRemoved' = NoPath
    /\ byContextPath' = ReduceRemove(byContextPath, toBeRemoved)
    /\ Stepped([type |-> "REMOVAL_CONFIRMED"])
    /\ UNCHANGED <<booted, siteNode, focused, clipboard, clipboardMode,
                   contentCanvasContextPath, failed>>

REMOVAL_CONFIRMED ==
    /\ CanStep
    /\ toBeRemoved' = NoPath
    /\ Stepped([type |-> "REMOVAL_CONFIRMED"])
    /\ UNCHANGED <<booted, byContextPath, siteNode, focused, clipboard,
                   clipboardMode, contentCanvasContextPath, failed>>

REMOVE(contextPath) ==
    /\ CanStep
    /\ byContextPath' = ReduceRemove(byContextPath, contextPath)
    /\ Stepped([type |-> "REMOVE", contextPath |-> contextPath])
    /\ UNCHANGED <<booted, siteNode, focused, toBeRemoved, clipboard,
                   clipboardMode, contentCanvasContextPath, failed>>

SWITCH_DIMENSION(payload) ==
    /\ CanStep
    /\ Stepped([type |-> "SWITCH_DIMENSION", payload |-> payload])
    /\ IF ReduceSwitchDimensionThrows(byContextPath, payload.nodes)
       THEN Thrown
       ELSE /\ siteNode' = payload.siteNodeContextPath
            /\ contentCanvasContextPath' = payload.documentNodeContextPath
            /\ focused' = EmptyFocus
            /\ byContextPath' = ReduceSwitchDimension(byContextPath,
                                                      payload.nodes)
            /\ UNCHANGED <<booted, toBeRemoved, clipboard, clipboardMode,
                           failed>>

COPY(contextPath) ==
    /\ CanStep
    /\ clipboard' = contextPath
    /\ clipboardMode' = "Copy"
    /\ Stepped([type |-> "COPY", contextPath |-> contextPath])
    /\ UNCHANGED <<booted, byContextPath, siteNode, focused, toBeRemoved,
                   contentCanvasContextPath, failed>>

CUT(contextPath) ==
    /\ CanStep
    /\ clipboard' = contextPath
    /\ clipboardMode' = "Move"
    /\ Stepped([type |-> "CUT", contextPath |-> contextPath])
    /\ UNCHANGED <<booted, byContextPath, siteNode, focused, toBeRemoved,
                   contentCanvasContextPath, failed>>

\* a PASTE that clears the clipboard mode as well
PasteClearingMode ==
    /\ CanStep
    /\ clipboard' = NoPath
    /\ clipboardMode' = ""
    /\ Stepped([type |-> "PASTE"])
    /\ UNCHANGED <<booted, byContextPath, siteNode, focused, toBeRemoved,
                   contentCanvasContextPath, failed>>

PASTE ==
    /\ CanStep
    /\ clipboard' = NoPath
    /\ Stepped([type |-> "PASTE"])
    /\ UNCHANGED <<booted, byContextPath, siteNode, focused, toBeRemoved,
                   clipboardMode, contentCanvasContextPath, failed>>

hide(contextPath) ==
    /\ CanStep
    /\ byContextPath' = ReduceHidden(byContextPath, contextPath, TRUE)
    /\ Stepped([type |-> "HIDE", contextPath |-> contextPath])
    /\ UNCHANGED <<booted, siteNode, focused, toBeRemoved, clipboard,
                   clipboardMode, contentCanvasContextPath, failed>>

show(contextPath) ==
    /\ CanStep
    /\ byContextPath' = ReduceHidden(byContextPath, contextPath, FALSE)
    /\ Stepped([type |-> "SHOW", contextPath |-> contextPath])
    /\ UNCHANGED <<booted, siteNode, focused, toBeRemoved, clipboard,
                   clipboardMode, contentCanvasContextPath, failed>>

UPDATE_URI(payload) ==
    /\ CanStep
    /\ byContextPath' = ReduceUpdateUri(byContextPath, payload.oldUriFragment,
                                        payload.newUriFragment)
    /\ Stepped([type |-> "UPDATE_URI", payload |-> payload])
    /\ UNCHANGED <<booted, siteNode, focused, toBeRemoved, clipboard,
                   clipboardMode, contentCanvasContextPath, failed>>

Next ==
    \/ INIT
    \/ \E nodeMap \in AddMaps : ADD(nodeMap)
    \/ \E x \in PayloadPaths, t \in PayloadPaths, position \in Positions :
          MOVE(x, t, position)
    \/ \E c \in FocusPaths, f \in FusionPaths : FOCUS(c, f)
    \/ UNFOCUS
    \/ \E c \in FocusPaths : COMMENCE_REMOVAL(c)
    \/ REMOVAL_ABORTED
    \/ REMOVAL_CONFIRMED
    \/ \E c \in PayloadPaths : REMOVE(c)
    \/ \E payload \in SwitchPayloads : SWITCH_DIMENSION(payload)
    \/ \E c \in FocusPaths : COPY(c)
    \/ \E c \in FocusPaths : CUT(c)
    \/ PASTE
    \/ \E c \in HidePaths : hide(c)
    \/ \E c \in HidePaths : show(c)
    \/ \E payload \in UriPayloads : UPDATE_URI(payload)

Spec == Init /\ [][Next]_vars

-----------------------------------------------------------------------------
(* The child index builder on arbitrary node maps: the bootstrap state holds *)
(* any node map of up to MaxNodes records, and INIT runs the builder on it.  *)

MaxNodes == 3

BuilderKeys == <<P, A, B, C, D>>
BuilderParents == {P, A, <<"p", "x">>}
BuilderIndices == {Num(1), Num(2)}

StaleChildren == << [contextPath |-> <<"p", "x">>, nodeType |-> "Page",
                     index |-> Num(7)] >>

BuilderNodes ==
    [parentContextPath : BuilderParents, nodeType : {"Page"},
     index : BuilderIndices]
    \cup [parentContextPath : {P}, nodeType : {"Page"},
          index : {Num(1)}, children : {StaleChildren}]
    \cup [nodeType : {"Page"}, index : {Num(1)}]

BuilderEntries(n) ==
    [key : {BuilderKeys[i] : i \in 1..(IF n < 5 THEN n ELSE 5)},
     node : BuilderNodes]

BuilderInputs ==
    UNION { { nodes \in [1..n -> BuilderEntries(n)] :
                \A i, j \in 1..n : i # j => nodes[i].key # nodes[j].key }
            : n \in 0..MaxNodes }

InitBuilder ==
    /\ booted = FALSE
    /\ byContextPath \in BuilderInputs
    /\ siteNode = P
    /\ focused = EmptyFocus
    /\ toBeRemoved = NoPath
    /\ clipboard = NoPath
    /\ clipboardMode = ""
    /\ contentCanvasContextPath = NoPath
    /\ lastOp = [type |-> "none"]
    /\ steps = 0
    /\ failed = FALSE
    /\ focusedNodesContextPaths = <<>>
    /\ dndDisabled = FALSE
    /\ sagaAlive = TRUE
    /\ persisted = <<>>

NextBuilder == INIT

SpecBuilder == InitBuilder /\ [][NextBuilder]_vars

-----------------------------------------------------------------------------
(* The uri rewrite over node maps with every combination of uris *)

\* what a node has for a uri: one of three uris, the empty string, no field
UriChoices == {"shoes", "red", "shoeshine", "empty", "none"}

UriNode(contextPath, parent, type, index, choice) ==
    LET uri == CASE choice = "shoes" -> UriShoes
                 [] choice = "red" -> UriShoesRed
                 [] choice = "shoeshine" -> UriShoeshine
                 [] OTHER -> <<>>
        node == ServerNode(contextPath, parent, type, index, uri)
    IN  IF choice = "none"
        THEN [f \in DOMAIN node \ {"uri"} |-> node[f]]
        ELSE node

UriInputs ==
    { << Entry(P, UriNode(P, NoPath, "Site", 0, u[1])),
         Entry(A, UriNode(A, P, "Page", 1, u[2])),
         Entry(B, UriNode(B, P, "Page", 2, u[3])),
         Entry(C, UriNode(C, A, "Page", 1, u[4])) >> :
        u \in [1..4 -> UriChoices] }

InitUri ==
    /\ booted = FALSE
    /\ byContextPath \in UriInputs
    /\ siteNode = P
    /\ focused = EmptyFocus
    /\ toBeRemoved = NoPath
    /\ clipboard = NoPath
    /\ clipboardMode = ""
    /\ contentCanvasContextPath = NoPath
    /\ lastOp = [type |-> "none"]
    /\ steps = 0
    /\ failed = FALSE
    /\ focusedNodesContextPaths = <<>>
    /\ dndDisabled = FALSE
    /\ sagaAlive = TRUE
    /\ persisted = <<>>

NextUri ==
    \/ INIT
    \/ \E payload \in UriPayloads : UPDATE_URI(payload)

SpecUri == InitUri /\ [][NextUri]_vars

-----------------------------------------------------------------------------
(* NodeTree: drag and drop is disabled for nested focused nodes *)

MaxFocused == 3

\* contextPathA.split('@')[0]
BeforeAt(contextPath) ==
    IF includes(contextPath, <<"@">>)
    THEN SubSeq(contextPath, 1, indexOf(contextPath, <<"@">>) - 1)
    ELSE contextPath

hasNestedNodes(focused_) ==
    ~(\A a \in DOMAIN focused_ :
        LET contextPathA == focused_[a]
            path == BeforeAt(contextPathA)
        IN  \A b \in DOMAIN focused_ :
                LET contextPathB == focused_[b]
                IN  ~(OccursAt(contextPathB, path, 1)
                        /\ contextPathA # contextPathB))

\* the context paths /sites@live, /sites/a@live, /sites/ab@live,
\* /sites/a/b@live and /sites/c@live
CpSites == <<"/", "s", "i", "t", "e", "s", "@", "l", "i", "v", "e">>
CpSitesA == <<"/", "s", "i", "t", "e", "s", "/", "a", "@", "l", "i", "v", "e">>
CpSitesAb == <<"/", "s", "i", "t", "e", "s", "/", "a", "b", "@", "l", "i", "v", "e">>
CpSitesAB == <<"/", "s", "i", "t", "e", "s", "/", "a", "/", "b", "@", "l", "i", "v", "e">>
CpSitesC == <<"/", "s", "i", "t", "e", "s", "/", "c", "@", "l", "i", "v", "e">>

FocusablePaths == {CpSites, CpSitesA, CpSitesAb, CpSitesAB, CpSitesC}

FocusedLists ==
    UNION { [1..n -> FocusablePaths] : n \in 0..MaxFocused }

\* NodeTree.render with the focused context paths it was given
render ==
    /\ lastOp.type # "render"
    /\ dndDisabled' = hasNestedNodes(focusedNodesContextPaths)
    /\ lastOp' = [type |-> "render"]
    /\ UNCHANGED <<booted, byContextPath, siteNode, focused, toBeRemoved,
                   clipboard, clipboardMode, contentCanvasContextPath, steps,
                   failed, focusedNodesContextPaths, sagaAlive, persisted>>

InitNested ==
    /\ booted = FALSE
    /\ byContextPath = FlatSite
    /\ siteNode = P
    /\ focused = EmptyFocus
    /\ toBeRemoved = NoPath
    /\ clipboard = NoPath
    /\ clipboardMode = ""
    /\ contentCanvasContextPath = NoPath
    /\ lastOp = [type |-> "none"]
    /\ steps = 0
    /\ failed = FALSE
    /\ focusedNodesContextPaths \in FocusedLists
    /\ dndDisabled = FALSE
    /\ sagaAlive = TRUE
    /\ persisted = <<>>

NextNested == render

SpecNested == InitNested /\ [][NextNested]_vars

-----------------------------------------------------------------------------
(* Notions used by the properties *)

Aux == <<siteNode, focused, toBeRemoved, clipboard, clipboardMode>>

\* positions of the records of m whose parentContextPath is k
ChildPositions(m, k) ==
    { i \in DOMAIN m : /\ "parentContextPath" \in DOMAIN m[i].node
                       /\ m[i].node.parentContextPath = k }

\* ref is the reference {contextPath, nodeType, index} to the record at i
RefersTo(ref, m, i) ==
    /\ DOMAIN ref = {"contextPath"} \cup ({"nodeType", "index"} \cap DOMAIN m[i].node)
    /\ ref.contextPath = m[i].key
    /\ \A f \in DOMAIN ref \ {"contextPath"} : ref[f] = m[i].node[f]

\* the children list of the record at i holds one reference for each record
\* whose parent is that record, and nothing else
ExactChildren(m, i) ==
    /\ "children" \in DOMAIN m[i].node
    /\ LET list == m[i].node.children
           kids == ChildPositions(m, m[i].key)
       IN  /\ Len(list) = Cardinality(kids)
           /\ \A c \in kids : \E j \in DOMAIN list : RefersTo(list[j], m, c)

NumericIndices(list) ==
    \A j \in DOMAIN list : "index" \in DOMAIN list[j] /\ Len(list[j].index) = 2

\* a is a smaller number than b
Smaller(a, b) == a[1] < b[1] \/ (a[1] = b[1] /\ a[2] < b[2])

Ascending(list) ==
    /\ NumericIndices(list)
    /\ \A i, j \in DOMAIN list :
          i < j => ~Smaller(list[j].index, list[i].index)

PositionOf(m, k) == CHOOSE i \in DOMAIN m : m[i].key = k

\* ascending by index, equal indices in the order of the map
AscendingStable(m, list) ==
    /\ NumericIndices(list)
    /\ \A i, j \in DOMAIN list :
          i < j => \/ Smaller(list[i].index, list[j].index)
                   \/ /\ list[i].index = list[j].index
                      /\ PositionOf(m, list[i].contextPath)
                           < PositionOf(m, list[j].contextPath)

ChildPaths(m, k) ==
    LET list == Get(m, k).children
    IN  [j \in DOMAIN list |-> list[j].contextPath]

InSomeChildren(m, k) ==
    \E i \in DOMAIN m :
        /\ "children" \in DOMAIN m[i].node
        /\ \E j \in DOMAIN m[i].node.children :
              m[i].node.children[j].contextPath = k

\* the fields of a record other than the derived children
OwnFields(node) == [f \in (DOMAIN node) \ {"children"} |-> node[f]]

Rebuilt == booted /\ lastOp.type \in {"INIT", "ADD", "MOVE"}

-----------------------------------------------------------------------------
(* C1 *)

\* the children list of every record holds exactly the records whose
\* parentContextPath is the record's key, ascending by index with equal
\* indices in encounter order; the order is asked of the lists whose indices
\* are all numbers, on which it is defined
ChildrenDerived(m) ==
    \A i \in DOMAIN m :
        /\ ExactChildren(m, i)
        /\ NumericIndices(m[i].node.children)
             => AscendingStable(m, m[i].node.children)

-----------------------------------------------------------------------------
(* C2 *)

\* C2: after the builder ran on a node map, every record has a children
\* list, the list holds one reference for each record whose
\* parentContextPath is the record's key and nothing else, ascending by
\* index; a record whose parentContextPath is no key is in no list.
C2_BuilderExact ==
    booted =>
        /\ \A i \in DOMAIN byContextPath :
              /\ ExactChildren(byContextPath, i)
              /\ Ascending(byContextPath[i].node.children)
        /\ \A i \in DOMAIN byContextPath :
              ~("parentContextPath" \in DOMAIN byContextPath[i].node
                /\ Has(byContextPath, byContextPath[i].node.parentContextPath))
              => ~InSomeChildren(byContextPath, byContextPath[i].key)

\* the builder ran on a map in which a record has two children that it had
\* to reorder, another record is a leaf and a third has no resolvable parent
C2_Witness ==
    /\ booted
    /\ Len(byContextPath) = 3
    /\ \E i \in DOMAIN byContextPath :
          LET list == byContextPath[i].node.children
          IN  /\ Len(list) = 2
              /\ PositionOf(byContextPath, list[1].contextPath)
                   > PositionOf(byContextPath, list[2].contextPath)
    /\ \E i \in DOMAIN byContextPath : byContextPath[i].node.children = <<>>
    /\ \E i \in DOMAIN byContextPath :
          /\ "parentContextPath" \in DOMAIN byContextPath[i].node
          /\ ~Has(byContextPath, byContextPath[i].node.parentContextPath)
          /\ ~InSomeChildren(byContextPath, byContextPath[i].key)

-----------------------------------------------------------------------------
(* C3 *)

\* C3, as stated: after MOVE(X, T, position) with X and T keys of the map,
\* the parentContextPath of X is T for `into` and is the parentContextPath
\* that the store holds for T for `before` and `after`.
C3_Original ==
    booted =>
        \A x \in Keys(byContextPath), t \in Keys(byContextPath),
           position \in Positions :
            LET moved == ReduceMove(byContextPath, x, t, position)
            IN  "parentContextPath" \in DOMAIN Get(byContextPath, t) =>
                    Get(moved, x).parentContextPath =
                        IF position = "into" THEN t
                        ELSE Get(byContextPath, t).parentContextPath

-----------------------------------------------------------------------------
(* C4 *)

\* the siblings A (index 1), B (index 2) and C (index 3) are the children of
\* P and are encountered in the order A, B, C
SiblingsABC(m) ==
    /\ {P, A, B, C} \subseteq Keys(m)
    /\ ChildPositions(m, P) = {PositionOf(m, A), PositionOf(m, B),
                               PositionOf(m, C)}
    /\ Get(m, A).index = Num(1)
    /\ Get(m, B).index = Num(2)
    /\ Get(m, C).index = Num(3)
    /\ PositionOf(m, A) < PositionOf(m, B)
    /\ PositionOf(m, B) < PositionOf(m, C)

\* C4: with the siblings A (1), B (2), C (3) under P encountered in this
\* order, MOVE(A, B, `after`) yields A.index = 3, A.parentContextPath = P
\* and the children of P in the order B, A, C.
C4_MoveAfterSibling ==
    [][ (/\ booted
         /\ SiblingsABC(byContextPath)
         /\ steps' = steps + 1
         /\ lastOp' = [type |-> "MOVE", nodeToBeMoved |-> A,
                        targetNode |-> B, position |-> "after"])
        => (/\ Get(byContextPath', A).index = Num(3)
            /\ Get(byContextPath', A).parentContextPath = P
            /\ ChildPaths(byContextPath', P) = <<B, A, C>>) ]_vars

\* MOVE(A, B, `after`) was the first operation on the bootstrapped site and
\* A now shares the index 3 with C
C4_Witness ==
    /\ booted
    /\ steps = 1
    /\ lastOp = [type |-> "MOVE", nodeToBeMoved |-> A, targetNode |-> B,
                 position |-> "after"]
    /\ Get(byContextPath, A).index = Get(byContextPath, C).index
    /\ ChildPaths(byContextPath, P)[2] = A

-----------------------------------------------------------------------------
(* C5 *)

\* C5, as stated: after MOVE(X, Y, `into`) with X and Y keys of the map,
\* X.parentContextPath = Y, X.index is the maximal sentinel and X is the last
\* element of the rebuilt children list of Y.
C5_Original ==
    booted =>
        \A x \in Keys(byContextPath), y \in Keys(byContextPath) :
            LET moved == ReduceMove(byContextPath, x, y, "into")
                list == ChildPaths(moved, y)
            IN  /\ Get(moved, x).parentContextPath = y
                /\ Get(moved, x).index = MAX_SAFE_INTEGER
                /\ Len(list) > 0
                /\ list[Len(list)] = x

-----------------------------------------------------------------------------
(* C6 *)

\* C6, as stated: after ADD(nodeMap) every record whose key is in nodeMap
\* has exactly the fields and values of the incoming record plus the
\* recomputed children, and every other record keeps its fields other than
\* children.
C6_Original ==
    booted =>
        \A nodeMap \in AddMaps :
            LET added == ReduceAdd(byContextPath, nodeMap)
            IN  /\ \A i \in DOMAIN nodeMap :
                      /\ Has(added, nodeMap[i].key)
                      /\ OwnFields(Get(added, nodeMap[i].key))
                           = OwnFields(nodeMap[i].node)
                /\ \A k \in Keys(byContextPath) \ Keys(nodeMap) :
                      /\ Has(added, k)
                      /\ OwnFields(Get(added, k))
                           = OwnFields(Get(byContextPath, k))

-----------------------------------------------------------------------------
(* C7 *)

\* C7: ADD is idempotent: a step ADD(m) leads to a store on which ADD(m)
\* changes nothing; the step itself leaves siteNode, focused, toBeRemoved,
\* clipboard and clipboardMode alone, so the store after ADD(m); ADD(m) is
\* the store after ADD(m).
C7_AddIdempotent ==
    [][ (booted /\ steps' = steps + 1 /\ lastOp'.type = "ADD")
        => (/\ ReduceAdd(byContextPath', lastOp'.nodeMap) = byContextPath'
            /\ UNCHANGED Aux) ]_vars

\* an ADD has acted: it has merged a record into an existing one or appended
\* a record, after an earlier operation on the store
C7_Witness ==
    /\ booted
    /\ steps = 2
    /\ lastOp.type = "ADD"
    /\ \A i \in DOMAIN lastOp.nodeMap : Has(byContextPath, lastOp.nodeMap[i].key)
    /\ Len(byContextPath) >= 4

-----------------------------------------------------------------------------
(* C8 *)

\* C8, as stated: after SWITCH_DIMENSION siteNode is siteNodeContextPath,
\* focused is the empty pair, every key of nodes is a key of the map and
\* every record of the map has as children exactly the records whose
\* parentContextPath is its key, sorted by index.
C8_Original ==
    (booted /\ lastOp.type = "SWITCH_DIMENSION") =>
        /\ siteNode = lastOp.payload.siteNodeContextPath
        /\ focused = EmptyFocus
        /\ Keys(lastOp.payload.nodes) \subseteq Keys(byContextPath)
        /\ \A i \in DOMAIN byContextPath :
              /\ ExactChildren(byContextPath, i)
              /\ NumericIndices(byContextPath[i].node.children)
                   => Ascending(byContextPath[i].node.children)

-----------------------------------------------------------------------------
(* C9 *)

\* C9: REMOVE(p) deletes the key p and nothing else: every other record
\* stays in the map with the same fields, and focused, toBeRemoved,
\* clipboard and clipboardMode keep their values.
C9_RemoveFrame ==
    [][ (booted /\ steps' = steps + 1 /\ lastOp'.type = "REMOVE")
        => (/\ Keys(byContextPath')
                 = Keys(byContextPath) \ {lastOp'.contextPath}
            /\ Len(byContextPath') = Cardinality(Keys(byContextPath'))
            /\ \A k \in Keys(byContextPath') :
                  Get(byContextPath', k) = Get(byContextPath, k)
            /\ UNCHANGED Aux) ]_vars

\* a focused node with children was removed: the focus still names it, its
\* children are still in the map
C9_Witness ==
    /\ booted
    /\ lastOp.type = "REMOVE"
    /\ ~Has(byContextPath, lastOp.contextPath)
    /\ focused.contextPath = lastOp.contextPath
    /\ ChildPositions(byContextPath, lastOp.contextPath) # {}

-----------------------------------------------------------------------------
(* C10 *)

\* the rebuilding operations that do not touch the record c: the resulting
\* maps of ADD with a node map without the key c and of MOVE of another node
RebuildsLeaving(m, untouched) ==
    { ReduceAdd(m, nodeMap) :
        nodeMap \in { nm \in AddMaps : Keys(nm) \cap untouched = {} } }
    \cup
    { ReduceMove(m, x, t, position) :
        x \in PayloadPaths \ untouched, t \in PayloadPaths,
        position \in Positions }

\* c is orphaned in the rebuilt map: still a record with its own fields,
\* in no children list, and the removed parent is in no children list
OrphanKept(m, rebuilt, c, parent) ==
    /\ Has(rebuilt, c)
    /\ OwnFields(Get(rebuilt, c)) = OwnFields(Get(m, c))
    /\ ~InSomeChildren(rebuilt, c)
    /\ ~InSomeChildren(rebuilt, parent)

\* C10, as stated: when REMOVE(p) has left a child c of p in the map, then
\* after the next rebuild (ADD or MOVE not touching c) c is still a key with
\* its own fields, is in no children list, and no list references p.
C10_Original ==
    (booted /\ lastOp.type = "REMOVE"
            /\ ~Has(byContextPath, lastOp.contextPath)) =>
        \A i \in ChildPositions(byContextPath, lastOp.contextPath) :
            \A rebuilt \in RebuildsLeaving(byContextPath,
                                            {byContextPath[i].key}) :
                OrphanKept(byContextPath, rebuilt, byContextPath[i].key,
                           lastOp.contextPath)

\* C10, amended: when REMOVE(p) has left a child c of p in the map, then
\* after the next rebuild that touches neither c nor p (ADD of a node map
\* without the keys c and p, MOVE of a node other than c and p) c is still a
\* key with its own fields, is in no children list, and no list references
\* p.
C10_OrphanAfterRebuild ==
    (booted /\ lastOp.type = "REMOVE"
            /\ ~Has(byContextPath, lastOp.contextPath)) =>
        \A i \in ChildPositions(byContextPath, lastOp.contextPath) :
            \A rebuilt \in RebuildsLeaving(byContextPath,
                              {byContextPath[i].key, lastOp.contextPath}) :
                OrphanKept(byContextPath, rebuilt, byContextPath[i].key,
                           lastOp.contextPath)

\* REMOVE(P) has acted while the children A, B and C of P stayed in the map
C10_Witness ==
    /\ booted
    /\ lastOp = [type |-> "REMOVE", contextPath |-> P]
    /\ ~Has(byContextPath, P)
    /\ {A, B, C} \subseteq Keys(byContextPath)
    /\ Get(byContextPath, C).parentContextPath = P

-----------------------------------------------------------------------------
(* C11: how keys enter and leave the map *)

\* C11, as stated: a key enters byContextPath only in an INIT, ADD or
\* SWITCH_DIMENSION step and leaves it only in a REMOVE or INIT step; no
\* other step changes the set of keys.
C11_Original ==
    [][ (booted /\ booted') =>
          LET old == Keys(byContextPath)
              new == Keys(byContextPath')
          IN  /\ (new \ old # {}) =>
                    lastOp'.type \in {"INIT", "ADD", "SWITCH_DIMENSION"}
              /\ (old \ new # {}) => lastOp'.type \in {"INIT", "REMOVE"} ]_vars

-----------------------------------------------------------------------------
(* C12: UPDATE_URI *)

Separators == {"/", "@"}

\* uri contains the fragment immediately followed by "/" or "@"
ContainsSegment(uri, fragment) ==
    \E i \in 1..Len(uri) :
        /\ OccursAt(uri, fragment, i)
        /\ i + Len(fragment) <= Len(uri)
        /\ uri[i + Len(fragment)] \in Separators

\* uri2 is uri with an occurrence of old that a separator follows replaced
\* by new
SegmentReplaced(uri, old, new, uri2) ==
    \E i \in 1..Len(uri) :
        /\ OccursAt(uri, old, i)
        /\ i + Len(old) <= Len(uri)
        /\ uri[i + Len(old)] \in Separators
        /\ uri2 = SubSeq(uri, 1, i - 1) \o new
                      \o SubSeq(uri, i + Len(old), Len(uri))

UriSneakers == <<"/", "s", "h", "o", "p", "/", "s", "n", "e", "a", "k", "e", "r", "s", "@", "l", "i", "v", "e">>
UriSneakersRed == <<"/", "s", "h", "o", "p", "/", "s", "n", "e", "a", "k", "e", "r", "s", "/", "r", "e", "d", "@", "l", "i", "v", "e">>
ShopShoes == <<"s", "h", "o", "p", "/", "s", "h", "o", "e", "s">>
ShopSneakers == <<"s", "h", "o", "p", "/", "s", "n", "e", "a", "k", "e", "r", "s">>

\* C12: an UPDATE_URI(old, new) step rewrites the uri of exactly the nodes
\* whose uri contains old followed by "/" or "@", replacing old by new, and
\* changes no other field of any node, no key and nothing else of the store;
\* UPDATE_URI(shop/shoes, shop/sneakers) turns /shop/shoes@live into
\* /shop/sneakers@live, /shop/shoes/red@live into /shop/sneakers/red@live
\* and leaves /shop/shoeshine@live and nodes without uri as they are.
C12_UpdateUri ==
    [][ (booted /\ lastOp'.type = "UPDATE_URI") =>
          LET old == lastOp'.payload.oldUriFragment
              new == lastOp'.payload.newUriFragment
              m == byContextPath
              m2 == byContextPath'
          IN  /\ ~failed'
              /\ Aux' = Aux
              /\ Len(m2) = Len(m)
              /\ \A i \in DOMAIN m :
                    LET n == m[i].node
                        n2 == m2[i].node
                    IN  /\ m2[i].key = m[i].key
                        /\ IF HasField(n, "uri") /\ ContainsSegment(n.uri, old)
                           THEN /\ DOMAIN n2 = DOMAIN n
                                /\ \A f \in DOMAIN n \ {"uri"} : n2[f] = n[f]
                                /\ SegmentReplaced(n.uri, old, new, n2.uri)
                           ELSE n2 = n
                        /\ (old = ShopShoes /\ new = ShopSneakers
                               /\ HasField(n, "uri")) =>
                              /\ n.uri = UriShoes => n2.uri = UriSneakers
                              /\ n.uri = UriShoesRed => n2.uri = UriSneakersRed
                              /\ n.uri = UriShoeshine => n2.uri = UriShoeshine
    ]_vars

\* UPDATE_URI(shop/shoes, shop/sneakers) has acted on a map with the three
\* uris of the example and a node without uri
C12_Witness ==
    /\ booted
    /\ steps = 1
    /\ lastOp.type = "UPDATE_URI"
    /\ lastOp.payload.oldUriFragment = ShopShoes
    /\ HasIn(byContextPath, P, "uri") /\ Get(byContextPath, P).uri = UriSneakers
    /\ HasIn(byContextPath, A, "uri")
    /\ Get(byContextPath, A).uri = UriSneakersRed
    /\ HasIn(byContextPath, B, "uri")
    /\ Get(byContextPath, B).uri = UriShoeshine
    /\ ~HasIn(byContextPath, C, "uri")

-----------------------------------------------------------------------------
(* C13: no operation fails on a missing or stale key *)

KeyedOperations ==
    {"ADD", "MOVE", "REMOVE", "HIDE", "SHOW", "FOCUS", "COMMENCE_REMOVAL",
     "COPY", "CUT", "PASTE", "UPDATE_URI"}

\* C13: no ADD, MOVE, REMOVE, HIDE, SHOW, FOCUS, COMMENCE_REMOVAL, COPY,
\* CUT, PASTE or UPDATE_URI step has thrown, whatever paths its payload
\* named (keys of the map or not): each has produced a store state.
C13_NoFailure == lastOp.type \in KeyedOperations => (booted /\ ~failed)

\* MOVE of A into the absent path D has acted: A now names a parent that is
\* no key of the map
C13_Witness ==
    /\ booted
    /\ ~failed
    /\ lastOp = [type |-> "MOVE", nodeToBeMoved |-> A, targetNode |-> D,
                 position |-> "into"]
    /\ ~Has(byContextPath, D)
    /\ Get(byContextPath, A).parentContextPath = D

-----------------------------------------------------------------------------
(* C14: INIT *)

\* C14, as stated: INIT never fails; on a bootstrap state without a node map
\* it yields an empty byContextPath, on a node map that map with its
\* children lists built, and in both cases the site node of the bootstrap
\* state, the empty focus and empty toBeRemoved, clipboard and clipboardMode.
C14_Original ==
    [][ lastOp'.type = "INIT" =>
          /\ ~failed'
          /\ booted'
          /\ byContextPath' = IF IsUndefined(byContextPath)
                              THEN EmptyMap
                              ELSE populateChildren(byContextPath)
          /\ siteNode' = siteNode
          /\ focused' = EmptyFocus
          /\ toBeRemoved' = NoPath
          /\ clipboard' = NoPath
          /\ clipboardMode' = "" ]_vars

-----------------------------------------------------------------------------
(* C15: the clipboard *)

\* C15: a COPY(p) step sets clipboard = p and clipboardMode = "Copy", a
\* CUT(p) step sets clipboard = p and clipboardMode = "Move", and a PASTE
\* step empties clipboard and changes nothing else: clipboardMode,
\* byContextPath, focused, toBeRemoved and siteNode keep their values.
C15_Clipboard ==
    [][ /\ lastOp'.type = "COPY" =>
              clipboard' = lastOp'.contextPath /\ clipboardMode' = "Copy"
        /\ lastOp'.type = "CUT" =>
              clipboard' = lastOp'.contextPath /\ clipboardMode' = "Move"
        /\ lastOp'.type = "PASTE" =>
              /\ clipboard' = NoPath
              /\ UNCHANGED <<clipboardMode, byContextPath, focused,
                             toBeRemoved, siteNode>> ]_vars

\* PASTE has acted after a COPY or CUT: the clipboard is empty and the mode
\* is still the one of the COPY or CUT
C15_Witness ==
    /\ booted
    /\ steps = 2
    /\ lastOp.type = "PASTE"
    /\ clipboard = NoPath
    /\ clipboardMode = "Move"

-----------------------------------------------------------------------------
(* C16: the removal workflow *)

\* C16: a COMMENCE_REMOVAL(p) step sets toBeRemoved = p, a REMOVAL_ABORTED
\* and a REMOVAL_CONFIRMED step empty toBeRemoved, and none of the three
\* changes byContextPath: the node marked for removal is still a key of the
\* map after REMOVAL_CONFIRMED.
C16_RemovalWorkflow ==
    [][ /\ lastOp'.type = "COMMENCE_REMOVAL" =>
              toBeRemoved' = lastOp'.contextPath
        /\ lastOp'.type \in {"REMOVAL_ABORTED", "REMOVAL_CONFIRMED"} =>
              toBeRemoved' = NoPath
        /\ lastOp'.type \in {"COMMENCE_REMOVAL", "REMOVAL_ABORTED",
                             "REMOVAL_CONFIRMED"} =>
              /\ byContextPath' = byContextPath
              /\ (toBeRemoved # NoPath /\ Has(byContextPath, toBeRemoved)) =>
                    Has(byContextPath', toBeRemoved) ]_vars

\* REMOVAL_CONFIRMED has acted and every node of the bootstrap map is still
\* a key
C16_Witness ==
    /\ booted
    /\ steps = 2
    /\ lastOp.type = "REMOVAL_CONFIRMED"
    /\ toBeRemoved = NoPath
    /\ {P, A, B, C} \subseteq Keys(byContextPath)

-----------------------------------------------------------------------------
(* C17: the focus *)

\* C17: an UNFOCUS step yields the focus with empty contextPath and empty
\* fusionPath whatever the focus was, a FOCUS(c, f) step yields exactly
\* the focus (c, f), and neither changes byContextPath, siteNode,
\* toBeRemoved, clipboard or clipboardMode.
C17_Focus ==
    [][ /\ lastOp'.type = "UNFOCUS" =>
              focused' = [contextPath |-> NoPath, fusionPath |-> ""]
        /\ lastOp'.type = "FOCUS" =>
              focused' = [contextPath |-> lastOp'.contextPath,
                          fusionPath |-> lastOp'.fusionPath]
        /\ lastOp'.type \in {"FOCUS", "UNFOCUS"} =>
              UNCHANGED <<byContextPath, siteNode, toBeRemoved, clipboard,
                          clipboardMode>> ]_vars

\* FOCUS has acted on a path that is no key of the map
C17_Witness ==
    /\ booted
    /\ lastOp.type = "FOCUS"
    /\ focused = [contextPath |-> D, fusionPath |-> "root<Page>"]
    /\ ~Has(byContextPath, D)

-----------------------------------------------------------------------------
(* C18: HIDE and SHOW *)

\* the properties of a record, empty when it has none
PropertiesOf(node) ==
    IF HasField(node, "properties") THEN node.properties ELSE EmptyObject

\* C18: a HIDE(p) step for a key p of the map sets properties._hidden of p
\* to true and a SHOW(p) step sets it to false; no other property and no
\* other field of p, no record of another node (a descendant of p or not)
\* and no key changes, so that after HIDE(p) and then SHOW(p) _hidden of p
\* is false.
C18_HideShow ==
    [][ (lastOp'.type \in {"HIDE", "SHOW"}
            /\ Has(byContextPath, lastOp'.contextPath)) =>
          LET p == lastOp'.contextPath
              m == byContextPath
              m2 == byContextPath'
          IN  /\ Len(m2) = Len(m)
              /\ \A i \in DOMAIN m :
                    /\ m2[i].key = m[i].key
                    /\ m[i].key # p => m2[i].node = m[i].node
                    /\ m[i].key = p =>
                          LET n == m[i].node
                              n2 == m2[i].node
                          IN  /\ DOMAIN n2 = DOMAIN n \cup {"properties"}
                              /\ \A f \in DOMAIN n \ {"properties"} :
                                    n2[f] = n[f]
                              /\ n2.properties =
                                    SetField(PropertiesOf(n), "_hidden",
                                             lastOp'.type = "HIDE") ]_vars

\* HIDE(P) has acted: P is hidden, its child A is not
C18_Witness ==
    /\ booted
    /\ lastOp = [type |-> "HIDE", contextPath |-> P]
    /\ Get(byContextPath, P).properties._hidden = TRUE
    /\ Get(byContextPath, A).parentContextPath = P
    /\ Get(byContextPath, A).properties._hidden = FALSE

-----------------------------------------------------------------------------
(* C19: the place of a node moved before or after a target *)

\* x and t are in one children list of m, x later than t
ListedLater(m, x, t) ==
    \E k \in Keys(m) :
        LET list == ChildPaths(m, k)
        IN  \E i \in DOMAIN list, j \in DOMAIN list :
                list[i] = t /\ list[j] = x /\ i < j

\* C19, as stated: after MOVE(X, T, `after`) with X # T keys of the map, T
\* with a numeric index and in a children list, X.index = T.index + 1 and X
\* is later than T in one rebuilt children list; after MOVE(X, T, `before`),
\* X.index = T.index - 1 and X is earlier than T in one rebuilt children
\* list.
C19_Original ==
    booted =>
        \A x \in Keys(byContextPath), t \in Keys(byContextPath) :
            (/\ x # t
             /\ HasIn(byContextPath, t, "index")
             /\ IsNumber(Get(byContextPath, t).index)
             /\ InSomeChildren(byContextPath, t)) =>
                LET after == ReduceMove(byContextPath, x, t, "after")
                    before == ReduceMove(byContextPath, x, t, "before")
                    index == Get(byContextPath, t).index
                IN  /\ Get(after, x).index = JsPlusOne(index)
                    /\ ListedLater(after, x, t)
                    /\ Get(before, x).index = JsMinusOne(index)
                    /\ ListedLater(before, t, x)

-----------------------------------------------------------------------------
(* C20: the parent relation *)

\* the parent that the store holds for k, '' when it holds none
ParentOf(m, k) ==
    IF HasIn(m, k, "parentContextPath")
    THEN Get(m, k).parentContextPath
    ELSE NoPath

\* to is from or an ancestor of from, in at most fuel parent steps
RECURSIVE IsSelfOrAncestor(_, _, _, _)
IsSelfOrAncestor(m, from, to, fuel) ==
    \/ from = to
    \/ /\ fuel > 0
       /\ Has(m, from)
       /\ IsSelfOrAncestor(m, ParentOf(m, from), to, fuel - 1)

\* no node of m is its own ancestor
Acyclic(m) ==
    \A k \in Keys(m) : ~IsSelfOrAncestor(m, ParentOf(m, k), k, Len(m))

\* C20, as stated: the parent links of the bootstrap map form a forest, and
\* in every state reached from it no node is its own ancestor by the
\* parentContextPath links, whatever MOVE operations were applied.
C20_Original == booted => Acyclic(byContextPath)

-----------------------------------------------------------------------------
(* C21: when drag and drop is disabled *)

\* the node at path a is an ancestor of the node at path b: the segments of
\* a are the first segments of b, and b has more
IsAncestorPath(a, b) ==
    /\ Len(a) < Len(b)
    /\ SubSeq(b, 1, Len(a)) = a
    /\ b[Len(a) + 1] = "/"

\* the list holds two distinct nodes of which one is an ancestor of the other
HoldsAncestorPair(list) ==
    \E i \in DOMAIN list, j \in DOMAIN list :
        /\ list[i] # list[j]
        /\ IsAncestorPath(BeforeAt(list[i]), BeforeAt(list[j]))

\* C21, as stated: the tree is rendered with drag and drop disabled exactly
\* when the focused context paths hold two distinct nodes of which one is an
\* ancestor of the other; for /sites/a and /sites/ab alone it is enabled.
C21_Original ==
    lastOp.type = "render" =>
        dndDisabled = HoldsAncestorPair(focusedNodesContextPaths)

-----------------------------------------------------------------------------
(* C22: the persistChanges intent of a MOVE *)

\* C22, as stated: every MOVE that the store has reduced is followed by
\* exactly one persistChanges action of the saga, carrying one change whose
\* subject is the MOVE's nodeToBeMoved and whose type and payload are
\* computed from its position and target node; no MOVE goes without.
C22_Original ==
    [][ (lastOp'.type = "MOVE" /\ steps' = steps + 1 /\ ~failed') =>
          /\ Len(persisted') = Len(persisted) + 1
          /\ SubSeq(persisted', 1, Len(persisted)) = persisted
          /\ persisted'[Len(persisted')] =
                MoveChanges(byContextPath', lastOp'.nodeToBeMoved,
                            lastOp'.targetNode, lastOp'.position) ]_vars

====
